---- MODULE Spec2Model ----
(***************************************************************************)
(* Bipartite matching by maximum flow: the Graph residual matrix            *)
(* (src/Graph.cpp), the FordFulkerson phase engine (src/FordFulkerson.cpp), *)
(* the edge loading of GraphPrepare (src/GraphPrepare.cpp) and the driver   *)
(* BipartiteMatcher::solve (src/BipartiteMatcher.cpp).                      *)
(*                                                                         *)
(* One behaviour is one execution of the program on one input file: the    *)
(* edge count is validated, the edge lines are loaded one createEdge at a  *)
(* time, solve wires source and sink and calls calculateMaxFlow, which is  *)
(* modelled step by step (BFS dequeue, search step, residual update).      *)
(***************************************************************************)
EXTENDS Integers, Sequences, FiniteSets, TLC

(* ------------------------------ bounds -------------------------------- *)

\* Largest number of nodes on each side of the bipartite graph.
MaxHalf == 2

\* Largest number of calculateMaxFlow calls made on one graph.
MaxCalls == 2

\* Largest edge count an input file declares: enough lines to load the
\* complete graph of the largest partition.
MaxEdges == MaxHalf * MaxHalf

(* --------------------------- node indexing ---------------------------- *)

\* Graph::Graph: totalNodes = nodes + 2.
TotalNodes(n) == n + 2

Idx(n) == 0 .. (TotalNodes(n) - 1)

\* Left partition 1..nodes/2, right partition nodes/2+1..nodes.
Left(n) == 1 .. (n \div 2)

Right(n) == ((n \div 2) + 1) .. n

LeftRight(n) == Left(n) \X Right(n)

\* Edge lines of an input file: the left->right pairs, and one pair inside
\* [1, nodes] that joins no left node to a right node (parseEdge and
\* readEdges accept any two integers).
EdgeLines(n) == LeftRight(n) \cup {<<1, 1>>}

(* ------------------------------ Graph --------------------------------- *)

\* Graph::initializeAdjacencyMatrix: totalNodes x totalNodes zeros.
initializeAdjacencyMatrix(n) == [i \in Idx(n) |-> [j \in Idx(n) |-> 0]]

\* Mutant of createEdge: the row of node1 keeps only its latest edge.
createEdge_lastWins(m, node1, node2, c) ==
    [m EXCEPT ![node1] = [j \in DOMAIN m |-> IF j = node2 THEN c ELSE 0]]

\* Mutant of createEdge: the capacity is added to the entry.
createEdge_additive(m, node1, node2, c) ==
    [m EXCEPT ![node1][node2] = @ + c]

\* Graph::createEdge: adjacencyMatrix[node1][node2] = maxFlow.
createEdge(m, node1, node2, c) ==
    [m EXCEPT ![node1][node2] = c]

\* Graph::createSourceNode: for i = 1..nodes/2 createEdge(source, i, 1).
RECURSIVE createSourceNodeFrom(_, _, _, _)
createSourceNodeFrom(m, n, s, i) ==
    IF i > n \div 2 THEN m
    ELSE createSourceNodeFrom(createEdge(m, s, i, 1), n, s, i + 1)

\* Mutant of createSourceNode: the loop starts at node 0 (i = 0).
createSourceNode_fromZero(m, n, s) == createSourceNodeFrom(m, n, s, 0)

createSourceNode(m, n, s) == createSourceNodeFrom(m, n, s, 1)

\* Graph::createSinkNode: for i = nodes/2+1..nodes createEdge(i, sink, 1).
RECURSIVE createSinkNodeFrom(_, _, _, _)
createSinkNodeFrom(m, n, t, i) ==
    IF i > n THEN m
    ELSE createSinkNodeFrom(createEdge(m, i, t, 1), n, t, i + 1)

\* Mutant of createSinkNode: the loop stops one node early (i < nodes).
createSinkNode_short(m, n, t) ==
    createSinkNodeFrom(m, n - 1, t, (n \div 2) + 1)

createSinkNode(m, n, t) == createSinkNodeFrom(m, n, t, (n \div 2) + 1)

\* Graph::connectSourceAndSinkNodes.
connectSourceAndSinkNodes(m, n, s, t) ==
    createSinkNode(createSourceNode(m, n, s), n, t)

\* Mutant of findAdjacentNodes: the last column is never scanned.
RECURSIVE findAdjacentNodesShort(_, _, _, _)
findAdjacentNodesShort(m, n, node, i) ==
    IF i >= TotalNodes(n) - 1 THEN <<>>
    ELSE IF m[node][i] > 0
         THEN <<i>> \o findAdjacentNodesShort(m, n, node, i + 1)
         ELSE findAdjacentNodesShort(m, n, node, i + 1)

findAdjacentNodes_short(m, n, node) == findAdjacentNodesShort(m, n, node, 0)

\* Mutant of findAdjacentNodes: the columns are scanned from the last one
\* down to 0.
RECURSIVE findAdjacentNodesDown(_, _, _, _)
findAdjacentNodesDown(m, n, node, i) ==
    IF i < 0 THEN <<>>
    ELSE IF m[node][i] > 0
         THEN <<i>> \o findAdjacentNodesDown(m, n, node, i - 1)
         ELSE findAdjacentNodesDown(m, n, node, i - 1)

findAdjacentNodes_descending(m, n, node) ==
    findAdjacentNodesDown(m, n, node, TotalNodes(n) - 1)

\* Graph::findAdjacentNodes: the i in 0..totalNodes-1, ascending, with
\* adjacencyMatrix[node][i] > 0.
RECURSIVE findAdjacentNodesFrom(_, _, _, _)
findAdjacentNodesFrom(m, n, node, i) ==
    IF i >= TotalNodes(n) THEN <<>>
    ELSE IF m[node][i] > 0
         THEN <<i>> \o findAdjacentNodesFrom(m, n, node, i + 1)
         ELSE findAdjacentNodesFrom(m, n, node, i + 1)

findAdjacentNodes(m, n, node) == findAdjacentNodesFrom(m, n, node, 0)

\* Mutant of printResults: the forward entry adjacencyMatrix[i][n] is tested.
printResults_forward(m, n) == {p \in LeftRight(n) : m[p[1]][p[2]] = 1}

\* Graph::printResults: the pairs printed, i left and n right with
\* adjacencyMatrix[n][i] == 1, and the total printed.
printResults(m, n) == {p \in LeftRight(n) : m[p[2]][p[1]] = 1}

matches(m, n) == Cardinality(printResults(m, n))

(* --------------------------- FordFulkerson ---------------------------- *)

\* FordFulkerson::initializeMaxFlow: totalNodes x totalNodes zeros.
initializeMaxFlow(n) == [i \in Idx(n) |-> [j \in Idx(n) |-> 0]]

\* FordFulkerson::initializeDepth: resize to totalNodes (zeros).
initializeDepth(n) == [i \in Idx(n) |-> 0]

\* The range check of calculateMaxFlow and updateResidualGraph.
InRange(n, x) == x >= 0 /\ x < TotalNodes(n)

\* Mutant of updateResidualGraph: the two entries are exchanged, the forward
\* entry is increased and the reverse entry decreased.
updateResidualGraph_swapped(m, src, dst) ==
    LET m1 == [m EXCEPT ![src][dst] = @ + 1]
    IN  [m1 EXCEPT ![dst][src] = @ - 1]

\* Mutant of updateResidualGraph: the forward entry is not decreased.
updateResidualGraph_noDecrease(m, src, dst) ==
    [m EXCEPT ![dst][src] = @ + 1]

\* Mutant of updateResidualGraph: the reverse entry is not increased.
updateResidualGraph_noReverse(m, src, dst) ==
    [m EXCEPT ![src][dst] = @ - 1]

\* FordFulkerson::updateResidualGraph, in range:
\* adjacencyMatrix[dst][src] += 1; adjacencyMatrix[src][dst] -= 1.
updateResidualGraph(m, src, dst) ==
    LET m1 == [m EXCEPT ![dst][src] = @ + 1]
    IN  [m1 EXCEPT ![src][dst] = @ - 1]

\* Mutant of clearMaxFlowAtNode: the row of the node is zeroed in place of
\* its column (maxFlow[node][i] = 0 for every i).
clearMaxFlowAtNode_row(mf, node) ==
    [i \in DOMAIN mf |-> IF i = node THEN [j \in DOMAIN mf[i] |-> 0]
                                     ELSE mf[i]]

\* FordFulkerson::clearMaxFlowAtNode: maxFlow[i][node] = 0 for every i.
clearMaxFlowAtNode(mf, node) ==
    [i \in DOMAIN mf |-> [mf[i] EXCEPT ![node] = 0]]

\* Mutant of ScanAdjacent: a node that is assigned a depth is not queued.
RECURSIVE ScanAdjacent_noEnqueue(_, _, _, _, _, _, _)
ScanAdjacent_noEnqueue(m, n, adj, k, cur, t, st) ==
    IF k > Len(adj) \/ st.found \/ st.overrun THEN st
    ELSE LET a == adj[k] IN
         IF st.depth[a] = -1 /\ m[cur][a] > 0
         THEN LET d == [st.depth EXCEPT ![a] = st.depth[cur] + 1] IN
              IF a = t
              THEN [st EXCEPT !.depth = d, !.found = TRUE]
              ELSE ScanAdjacent_noEnqueue(m, n, adj, k + 1, cur, t,
                       [st EXCEPT !.depth = d])
         ELSE ScanAdjacent_noEnqueue(m, n, adj, k + 1, cur, t, st)

\* Mutant of ScanAdjacent: an adjacent node gets the depth of the current
\* node (the + 1 is missing).
RECURSIVE ScanAdjacent_flatDepth(_, _, _, _, _, _, _)
ScanAdjacent_flatDepth(m, n, adj, k, cur, t, st) ==
    IF k > Len(adj) \/ st.found \/ st.overrun THEN st
    ELSE LET a == adj[k] IN
         IF st.depth[a] = -1 /\ m[cur][a] > 0
         THEN LET d == [st.depth EXCEPT ![a] = st.depth[cur]] IN
              IF a = t
              THEN [st EXCEPT !.depth = d, !.found = TRUE]
              ELSE IF st.back >= TotalNodes(n)
              THEN [st EXCEPT !.depth = d, !.overrun = TRUE]
              ELSE ScanAdjacent_flatDepth(m, n, adj, k + 1, cur, t,
                       [st EXCEPT !.depth = d,
                                  !.queue = [@ EXCEPT ![st.back] = a],
                                  !.back = @ + 1])
         ELSE ScanAdjacent_flatDepth(m, n, adj, k + 1, cur, t, st)

\* Mutant of ScanAdjacent: the test depth[adjacent] == -1 is missing, a
\* node is assigned a depth and queued each time it is met.
RECURSIVE ScanAdjacent_noVisitedCheck(_, _, _, _, _, _, _)
ScanAdjacent_noVisitedCheck(m, n, adj, k, cur, t, st) ==
    IF k > Len(adj) \/ st.found \/ st.overrun THEN st
    ELSE LET a == adj[k] IN
         IF m[cur][a] > 0
         THEN LET d == [st.depth EXCEPT ![a] = st.depth[cur] + 1] IN
              IF a = t
              THEN [st EXCEPT !.depth = d, !.found = TRUE]
              ELSE IF st.back >= TotalNodes(n)
              THEN [st EXCEPT !.depth = d, !.overrun = TRUE]
              ELSE ScanAdjacent_noVisitedCheck(m, n, adj, k + 1, cur, t,
                       [st EXCEPT !.depth = d,
                                  !.queue = [@ EXCEPT ![st.back] = a],
                                  !.back = @ + 1])
         ELSE ScanAdjacent_noVisitedCheck(m, n, adj, k + 1, cur, t, st)

\* The adjacency loop of levelGraph for one dequeued node. st carries the
\* depth vector, the queue, its write index, whether the sink was assigned
\* a depth (return true) and whether a queue slot past the end was written.
RECURSIVE ScanAdjacent(_, _, _, _, _, _, _)
ScanAdjacent(m, n, adj, k, cur, t, st) ==
    IF k > Len(adj) \/ st.found \/ st.overrun THEN st
    ELSE LET a == adj[k] IN
         IF st.depth[a] = -1 /\ m[cur][a] > 0
         THEN LET d == [st.depth EXCEPT ![a] = st.depth[cur] + 1] IN
              IF a = t
              THEN [st EXCEPT !.depth = d, !.found = TRUE]
              ELSE IF st.back >= TotalNodes(n)
              THEN [st EXCEPT !.depth = d, !.overrun = TRUE]
              ELSE ScanAdjacent(m, n, adj, k + 1, cur, t,
                       [st EXCEPT !.depth = d,
                                  !.queue = [@ EXCEPT ![st.back] = a],
                                  !.back = @ + 1])
         ELSE ScanAdjacent(m, n, adj, k + 1, cur, t, st)

\* Mutant of FirstAdvance: the loop does not stop at the first neighbour
\* that satisfies the condition, the last one that does is taken.
RECURSIVE FirstAdvance_last(_, _, _, _, _)
FirstAdvance_last(adj, k, nd, dp, mf) ==
    IF k > Len(adj) THEN -1
    ELSE LET later == FirstAdvance_last(adj, k + 1, nd, dp, mf) IN
         IF later # -1 THEN later
         ELSE IF dp[nd] + 1 = dp[adj[k]] /\ mf[nd][adj[k]] > 0
              THEN adj[k]
              ELSE -1

\* The neighbour loop of findNextNodeInPath: the first neighbour with
\* depth[node] + 1 == depth[neighbor] && maxFlow[node][neighbor] > 0,
\* or -1 when the loop ends without advancing.
RECURSIVE FirstAdvance(_, _, _, _, _)
FirstAdvance(adj, k, nd, dp, mf) ==
    IF k > Len(adj) THEN -1
    ELSE IF dp[nd] + 1 = dp[adj[k]] /\ mf[nd][adj[k]] > 0
         THEN adj[k]
         ELSE FirstAdvance(adj, k + 1, nd, dp, mf)

(* ------------------------------- state -------------------------------- *)

VARIABLES
    nodes,            \* GraphPrepare::nodes, Graph::nodes (partition size)
    edgesLeft,        \* edge lines still to read: edges - i of readEdges
    adjacencyMatrix,  \* Graph::adjacencyMatrix, the real residual capacities
    maxFlow,          \* FordFulkerson::maxFlow, the per-phase snapshot
    depth,            \* FordFulkerson::depth
    source, sink,     \* arguments of the calculateMaxFlow call in progress
    bfsQueue, front, back,   \* locals of levelGraph
    path,             \* local of calculateMaxFlow's loop body
    currentNode, backtracking,   \* locals of findAugmentingPath
    pathIndex,        \* index of the update loop of augmentFlowAlongPath
    pc,               \* position of the program
    raised,           \* the exception first thrown: by which function, its type
    thrown,           \* type of the exception the top-level caller sees
    loaded,           \* history: the set of edge lines handed to createEdge
    commits,          \* history: the paths committed in this run, in order
    phases,           \* history: levelGraph calls that returned true, this call
    calls,            \* history: calculateMaxFlow calls entered in this run
    capAtCall,        \* history: adjacencyMatrix when the current call began
    rerun,            \* history: TRUE in the second run on the same matrix
    firstRun,         \* history: commits and final matrix of the first run
    pruned,           \* history: nodes the search backtracked out of this phase
    commitsAtPhase,   \* history: Len(commits) when the current phase began
    lastSinkDepth,    \* history: depth[sink] of the previous phase, -1 if none
    repeated          \* history: solve calls after the first, first report

vars == <<nodes, edgesLeft, adjacencyMatrix, maxFlow, depth, source, sink,
          bfsQueue, front, back, path, currentNode, backtracking, pathIndex, pc, raised,
          thrown, loaded, commits, phases, calls, capAtCall, rerun, firstRun,
          pruned, commitsAtPhase, lastSinkDepth, repeated>>

graphVars == <<nodes, adjacencyMatrix>>

bfsVars == <<bfsQueue, front, back>>

searchVars == <<currentNode, backtracking>>

errorVars == <<raised, thrown>>

NoException == [by |-> "none", type |-> "none"]

runVars == <<loaded, commits, phases, calls, capAtCall, rerun, firstRun>>

phaseVars == <<pruned, commitsAtPhase, lastSinkDepth>>

historyVars == <<runVars, phaseVars, repeated>>

EmptyQueue(n) == [k \in Idx(n) |-> 0]

\* BipartiteMatcher::fileRead up to the edge count: Graph(nodes) is built
\* with a validated even node count >= 2, the declared edge count (any
\* integer, here from -1 up) is read.
Init ==
    /\ nodes \in {2 * h : h \in 1 .. MaxHalf}
    /\ edgesLeft \in (-1) .. MaxEdges
    /\ adjacencyMatrix = initializeAdjacencyMatrix(nodes)
    /\ maxFlow = initializeMaxFlow(nodes)
    /\ depth = initializeDepth(nodes)
    /\ source = 0 /\ sink = 0
    /\ bfsQueue = EmptyQueue(nodes) /\ front = 0 /\ back = 0
    /\ path = <<>>
    /\ currentNode = 0 /\ backtracking = FALSE
    /\ pathIndex = 0
    /\ pc = "validateEdges"
    /\ raised = NoException
    /\ thrown = "none"
    /\ loaded = {}
    /\ commits = <<>>
    /\ phases = 0
    /\ calls = 0
    /\ capAtCall = adjacencyMatrix
    /\ rerun = FALSE
    /\ firstRun = [commits |-> <<>>, matrix |-> adjacencyMatrix]
    /\ pruned = {}
    /\ commitsAtPhase = 0
    /\ lastSinkDepth = -1
    /\ repeated = [count |-> 0, pairs |-> {}]

(* ------------------------- GraphPrepare: loading ---------------------- *)

\* Mutant of validateEdges: an edge count of 0 is accepted (edges < 0).
validateEdges_allowZero ==
    /\ pc = "validateEdges"
    /\ IF edgesLeft < 0
       THEN /\ pc' = "error"
            /\ raised' = [by |-> "validateEdges", type |-> "invalid_argument"]
            /\ thrown' = "runtime_error"
       ELSE /\ pc' = "readEdges"
            /\ UNCHANGED errorVars
    /\ UNCHANGED <<graphVars, edgesLeft, maxFlow, depth, source, sink, bfsVars,
                   path, searchVars, pathIndex, historyVars>>

\* GraphPrepare::validateEdges inside fileRead: edges < 1 throws
\* invalid_argument, which fileRead's catch (...) turns into runtime_error.
validateEdges ==
    /\ pc = "validateEdges"
    /\ IF edgesLeft < 1
       THEN /\ pc' = "error"
            /\ raised' = [by |-> "validateEdges", type |-> "invalid_argument"]
            /\ thrown' = "runtime_error"
       ELSE /\ pc' = "readEdges"
            /\ UNCHANGED errorVars
    /\ UNCHANGED <<graphVars, edgesLeft, maxFlow, depth, source, sink, bfsVars,
                   path, searchVars, pathIndex, historyVars>>

\* One iteration of GraphPrepare::readEdges: a line is parsed and handed to
\* createEdge with capacity 1.
readEdges ==
    /\ pc = "readEdges"
    /\ edgesLeft > 0
    /\ \E line \in EdgeLines(nodes) :
          /\ adjacencyMatrix' = createEdge(adjacencyMatrix, line[1], line[2], 1)
          /\ loaded' = loaded \cup {line}
    /\ edgesLeft' = edgesLeft - 1
    /\ UNCHANGED <<nodes, maxFlow, depth, source, sink, bfsVars, path,
                   searchVars, pathIndex, pc, errorVars, commits, phases, calls, capAtCall,
                   rerun, firstRun, phaseVars, repeated>>

\* GraphPrepare::readEdges when the file ends before the declared count:
\* getline fails, runtime_error.
readEdgesEof ==
    /\ pc = "readEdges"
    /\ edgesLeft > 0
    /\ pc' = "error"
    /\ raised' = [by |-> "readEdges", type |-> "runtime_error"]
    /\ thrown' = "runtime_error"
    /\ UNCHANGED <<graphVars, edgesLeft, maxFlow, depth, source, sink, bfsVars,
                   path, searchVars, pathIndex, historyVars>>

\* The loop of readEdges ends after the declared number of lines: fileRead
\* returns and main calls solve.
readEdgesDone ==
    /\ pc = "readEdges"
    /\ edgesLeft <= 0
    /\ pc' = "solve"
    /\ UNCHANGED <<graphVars, edgesLeft, maxFlow, depth, source, sink, bfsVars,
                   path, searchVars, pathIndex, errorVars, historyVars>>

(* ---------------------- BipartiteMatcher::solve ----------------------- *)

\* solve up to the calculateMaxFlow call: source 0 and sink nodes + 1 are
\* wired, a FordFulkerson object is constructed over the graph.
solve ==
    /\ pc = "solve"
    /\ adjacencyMatrix' =
           connectSourceAndSinkNodes(adjacencyMatrix, nodes, 0, nodes + 1)
    /\ maxFlow' = initializeMaxFlow(nodes)
    /\ depth' = initializeDepth(nodes)
    /\ pc' = "calculateMaxFlow"
    /\ UNCHANGED <<nodes, edgesLeft, source, sink, bfsVars, path, searchVars,
                   pathIndex, errorVars, historyVars>>

(* -------------------- FordFulkerson::calculateMaxFlow ------------------ *)

\* Arguments of a calculateMaxFlow call: solve passes (0, nodes + 1); the
\* two other pairs are out of range and exercise the range check.
CallArgs(n) == {<<0, n + 1>>, <<-1, n + 1>>, <<0, n + 2>>}

\* Mutant of calculateMaxFlow: the range check tests the source only.
calculateMaxFlow_sourceOnly(s, t) ==
    /\ \/ pc = "calculateMaxFlow"
       \/ pc = "returned" /\ calls < MaxCalls
    /\ calls' = calls + 1
    /\ source' = s /\ sink' = t
    /\ capAtCall' = adjacencyMatrix
    /\ IF InRange(nodes, s)
       THEN /\ phases' = 0
            /\ pc' = "levelGraph"
            /\ UNCHANGED errorVars
       ELSE /\ pc' = "error"
            /\ raised' = [by |-> "calculateMaxFlow", type |-> "invalid_argument"]
            /\ thrown' = "runtime_error"
            /\ UNCHANGED phases
    /\ UNCHANGED <<graphVars, edgesLeft, maxFlow, depth, bfsVars, path,
                   searchVars, pathIndex, loaded, commits, rerun, firstRun,
                   repeated>>
    /\ pruned' = {}
    /\ commitsAtPhase' = Len(commits)
    /\ lastSinkDepth' = -1

\* Mutant of calculateMaxFlow: the range check is made after the first
\* levelGraph call has reset the depth vector.
calculateMaxFlow_lateCheck(s, t) ==
    /\ \/ pc = "calculateMaxFlow"
       \/ pc = "returned" /\ calls < MaxCalls
    /\ calls' = calls + 1
    /\ source' = s /\ sink' = t
    /\ capAtCall' = adjacencyMatrix
    /\ IF InRange(nodes, s) /\ InRange(nodes, t)
       THEN /\ phases' = 0
            /\ pc' = "levelGraph"
            /\ UNCHANGED <<depth, errorVars>>
       ELSE /\ pc' = "error"
            /\ depth' = [k \in Idx(nodes) |-> -1]
            /\ raised' = [by |-> "calculateMaxFlow", type |-> "invalid_argument"]
            /\ thrown' = "runtime_error"
            /\ UNCHANGED phases
    /\ UNCHANGED <<graphVars, edgesLeft, maxFlow, bfsVars, path,
                   searchVars, pathIndex, loaded, commits, rerun, firstRun,
                   repeated>>
    /\ pruned' = {}
    /\ commitsAtPhase' = Len(commits)
    /\ lastSinkDepth' = -1

\* Entry of calculateMaxFlow(s, t): the parameters are bound and the range
\* check is made. Out of range throws invalid_argument inside the try
\* block, whose catch rethrows it as runtime_error. The first call is the
\* one of solve; a further call is made on the residual graph the previous
\* call left.
calculateMaxFlow(s, t) ==
    /\ \/ pc = "calculateMaxFlow"
       \/ pc = "returned" /\ calls < MaxCalls
    /\ calls' = calls + 1
    /\ source' = s /\ sink' = t
    /\ capAtCall' = adjacencyMatrix
    /\ IF InRange(nodes, s) /\ InRange(nodes, t)
       THEN /\ phases' = 0
            /\ pc' = "levelGraph"
            /\ UNCHANGED errorVars
       ELSE /\ pc' = "error"
            /\ raised' = [by |-> "calculateMaxFlow", type |-> "invalid_argument"]
            /\ thrown' = "runtime_error"
            /\ UNCHANGED phases
    /\ UNCHANGED <<graphVars, edgesLeft, maxFlow, depth, bfsVars, path,
                   searchVars, pathIndex, loaded, commits, rerun, firstRun,
                   repeated>>
    /\ pruned' = {}
    /\ commitsAtPhase' = Len(commits)
    /\ lastSinkDepth' = -1

\* levelGraph, up to the BFS loop: depth.assign(totalNodes, -1);
\* depth[source] = 0; bfsQueue[back++] = source.
levelGraphBegin ==
    /\ pc = "levelGraph"
    /\ depth' = [k \in Idx(nodes) |-> IF k = source THEN 0 ELSE -1]
    /\ bfsQueue' = [EmptyQueue(nodes) EXCEPT ![0] = source]
    /\ front' = 0
    /\ back' = 1
    /\ pc' = "bfs"
    /\ UNCHANGED <<graphVars, edgesLeft, maxFlow, source, sink, path,
                   searchVars, pathIndex, errorVars, historyVars>>

\* One iteration of the BFS loop of levelGraph: a node is dequeued and its
\* adjacent nodes are scanned. When the sink is assigned a depth levelGraph
\* returns true at once and the loop body of calculateMaxFlow is entered.
levelGraphStep ==
    /\ pc = "bfs"
    /\ front < back
    /\ LET cur == bfsQueue[front]
           st  == ScanAdjacent(adjacencyMatrix, nodes,
                      findAdjacentNodes(adjacencyMatrix, nodes, cur), 1, cur,
                      sink,
                      [depth |-> depth, queue |-> bfsQueue, back |-> back,
                       found |-> FALSE, overrun |-> FALSE])
       IN  /\ depth' = st.depth
           /\ IF st.overrun
              THEN /\ pc' = "undefined"
                   /\ UNCHANGED bfsVars
              ELSE IF st.found
              THEN /\ pc' = "phase"
                   /\ bfsQueue' = EmptyQueue(nodes) /\ front' = 0 /\ back' = 0
              ELSE /\ pc' = "bfs"
                   /\ bfsQueue' = st.queue
                   /\ front' = front + 1
                   /\ back' = st.back
    /\ UNCHANGED <<graphVars, edgesLeft, maxFlow, source, sink, path,
                   searchVars, pathIndex, errorVars, historyVars>>

\* The BFS queue is empty: levelGraph returns false, the while loop of
\* calculateMaxFlow ends and calculateMaxFlow returns.
levelGraphFalse ==
    /\ pc = "bfs"
    /\ front >= back
    /\ pc' = "returned"
    /\ bfsQueue' = EmptyQueue(nodes) /\ front' = 0 /\ back' = 0
    /\ UNCHANGED <<graphVars, edgesLeft, maxFlow, depth, source, sink, path,
                   searchVars, pathIndex, errorVars, historyVars>>

\* Mutant of phaseBegin: the snapshot maxFlow is not taken.
phaseBegin_noSnapshot ==
    /\ pc = "phase"
    /\ path' = <<>>
    /\ phases' = phases + 1
    /\ pc' = "augment"
    /\ pruned' = {}
    /\ commitsAtPhase' = Len(commits)
    /\ lastSinkDepth' = depth[sink]
    /\ UNCHANGED <<graphVars, edgesLeft, maxFlow, depth, source, sink,
                   bfsVars, searchVars, pathIndex, errorVars, loaded,
                   commits, calls, capAtCall, rerun, firstRun, repeated>>

\* Loop body of calculateMaxFlow after levelGraph returned true:
\* maxFlow = graph.getAdjacencyMatrix(); an empty path; augmentFlowAlongPath.
phaseBegin ==
    /\ pc = "phase"
    /\ maxFlow' = adjacencyMatrix
    /\ path' = <<>>
    /\ phases' = phases + 1
    /\ pc' = "augment"
    /\ pruned' = {}
    /\ commitsAtPhase' = Len(commits)
    /\ lastSinkDepth' = depth[sink]
    /\ UNCHANGED <<graphVars, edgesLeft, depth, source, sink, bfsVars,
                   searchVars, pathIndex, errorVars, loaded, commits, calls,
                   capAtCall, rerun, firstRun, repeated>>

(* ------------------- FordFulkerson::findAugmentingPath ---------------- *)

\* augmentFlowAlongPath calls findAugmentingPath: currentNode = source,
\* backtracking = false. With source == sink the while loop is not entered
\* and false is returned, which ends the phase.
findAugmentingPathBegin ==
    /\ pc = "augment"
    /\ IF source = sink
       THEN /\ pc' = "levelGraph"
            /\ path' = <<>>
            /\ UNCHANGED searchVars
       ELSE /\ pc' = "search"
            /\ currentNode' = source
            /\ backtracking' = FALSE
            /\ path' = path
    /\ UNCHANGED <<graphVars, edgesLeft, maxFlow, depth, source, sink,
                   bfsVars, pathIndex, errorVars, historyVars>>

\* path after the first statement of findNextNodeInPath: the node is
\* appended unless the call is a backtracking one.
PathWithNode == IF backtracking THEN path ELSE Append(path, currentNode)

\* Mutant of NextNode: the neighbours are those of the snapshot maxFlow,
\* not those of the graph.
NextNode_snapshotNeighbours ==
    FirstAdvance(findAdjacentNodes(maxFlow, nodes, currentNode), 1,
                 currentNode, depth, maxFlow)

\* The neighbour findNextNodeInPath advances to, or -1.
NextNode ==
    FirstAdvance(findAdjacentNodes(adjacencyMatrix, nodes, currentNode), 1,
                 currentNode, depth, maxFlow)

\* Mutant of findNextNodeAdvance: the neighbours are visited in no fixed
\* order, so any neighbour that satisfies the condition may be taken.
findNextNodeAdvance_any ==
    /\ pc = "search"
    /\ \E nb \in Idx(nodes) :
          /\ adjacencyMatrix[currentNode][nb] > 0
          /\ depth[currentNode] + 1 = depth[nb]
          /\ maxFlow[currentNode][nb] > 0
          /\ IF nb = sink
             THEN /\ path' = Append(PathWithNode, sink)
                  /\ pc' = "commit"
                  /\ currentNode' = 0
             ELSE /\ path' = PathWithNode
                  /\ pc' = "search"
                  /\ currentNode' = nb
    /\ backtracking' = FALSE
    /\ pathIndex' = 0
    /\ UNCHANGED <<graphVars, edgesLeft, maxFlow, depth, source, sink,
                   bfsVars, errorVars, historyVars>>

\* findNextNodeInPath advances to a neighbour and returns true; when that
\* neighbour is the sink findAugmentingPath appends it and returns true,
\* and augmentFlowAlongPath starts its update loop.
findNextNodeAdvance ==
    /\ pc = "search"
    /\ NextNode # -1
    /\ IF NextNode = sink
       THEN /\ path' = Append(PathWithNode, sink)
            /\ pc' = "commit"
            /\ currentNode' = 0
       ELSE /\ path' = PathWithNode
            /\ pc' = "search"
            /\ currentNode' = NextNode
    /\ backtracking' = FALSE
    /\ pathIndex' = 0
    /\ UNCHANGED <<graphVars, edgesLeft, maxFlow, depth, source, sink,
                   bfsVars, errorVars, historyVars>>

\* Mutant of findNextNodeFail: calculateMaxFlow runs one phase only (an if
\* in place of its while) and returns.
findNextNodeFail_once ==
    /\ pc = "search"
    /\ NextNode = -1
    /\ currentNode = source
    /\ path' = <<>>
    /\ currentNode' = 0
    /\ backtracking' = FALSE
    /\ pc' = "returned"
    /\ UNCHANGED <<graphVars, edgesLeft, maxFlow, depth, source, sink,
                   bfsVars, pathIndex, errorVars, historyVars>>

\* findNextNodeInPath finds no neighbour at the source and returns false:
\* findAugmentingPath returns false, augmentFlowAlongPath returns and
\* calculateMaxFlow calls levelGraph again.
findNextNodeFail ==
    /\ pc = "search"
    /\ NextNode = -1
    /\ currentNode = source
    /\ path' = <<>>
    /\ currentNode' = 0
    /\ backtracking' = FALSE
    /\ pc' = "levelGraph"
    /\ UNCHANGED <<graphVars, edgesLeft, maxFlow, depth, source, sink,
                   bfsVars, pathIndex, errorVars, historyVars>>

\* Mutant of findNextNodeBacktrack: at a dead end other than the source the
\* search gives up, as it does at the source.
findNextNodeBacktrack_giveUp ==
    /\ pc = "search"
    /\ NextNode = -1
    /\ currentNode # source
    /\ path' = <<>>
    /\ pc' = "levelGraph"
    /\ UNCHANGED <<graphVars, edgesLeft, maxFlow, depth, source, sink,
                   bfsVars, searchVars, pathIndex, errorVars, historyVars>>

\* Mutant of findNextNodeBacktrack: the dead end is cleared in the matrix of
\* the graph as well as in maxFlow.
findNextNodeBacktrack_clearsGraph ==
    /\ pc = "search"
    /\ NextNode = -1
    /\ currentNode # source
    /\ Len(PathWithNode) > 0
    /\ maxFlow' = clearMaxFlowAtNode(maxFlow, currentNode)
    /\ adjacencyMatrix' = clearMaxFlowAtNode(adjacencyMatrix, currentNode)
    /\ LET popped == SubSeq(PathWithNode, 1, Len(PathWithNode) - 1)
       IN  /\ path' = popped
           /\ currentNode' = IF Len(popped) > 0 THEN popped[Len(popped)]
                             ELSE currentNode
    /\ backtracking' = TRUE
    /\ pc' = "search"
    /\ pruned' = pruned \cup {currentNode}
    /\ UNCHANGED <<nodes, edgesLeft, depth, source, sink, bfsVars,
                   pathIndex, errorVars, runVars, commitsAtPhase,
                   lastSinkDepth, repeated>>

\* Mutant of findNextNodeBacktrack: the dead end is not cleared in maxFlow.
findNextNodeBacktrack_noClear ==
    /\ pc = "search"
    /\ NextNode = -1
    /\ currentNode # source
    /\ Len(PathWithNode) > 0
    /\ LET popped == SubSeq(PathWithNode, 1, Len(PathWithNode) - 1)
       IN  /\ path' = popped
           /\ currentNode' = IF Len(popped) > 0 THEN popped[Len(popped)]
                             ELSE currentNode
    /\ backtracking' = TRUE
    /\ pc' = "search"
    /\ UNCHANGED <<graphVars, edgesLeft, maxFlow, depth, source, sink,
                   bfsVars, pathIndex, errorVars, historyVars>>

\* findNextNodeInPath at a dead end other than the source:
\* clearMaxFlowAtNode(node), path.pop_back(), node = path.back() when the
\* path is not empty, backtracking = true, return true. pop_back on an
\* empty path is undefined behaviour.
findNextNodeBacktrack ==
    /\ pc = "search"
    /\ NextNode = -1
    /\ currentNode # source
    /\ maxFlow' = clearMaxFlowAtNode(maxFlow, currentNode)
    /\ IF Len(PathWithNode) = 0
       THEN /\ pc' = "undefined"
            /\ UNCHANGED <<path, searchVars>>
       ELSE LET popped == SubSeq(PathWithNode, 1, Len(PathWithNode) - 1)
                back1  == IF Len(popped) > 0 THEN popped[Len(popped)]
                          ELSE currentNode
            IN  /\ backtracking' = TRUE
                /\ IF back1 = sink
                   THEN /\ path' = Append(popped, sink)
                        /\ pc' = "commit"
                        /\ currentNode' = 0
                   ELSE /\ path' = popped
                        /\ pc' = "search"
                        /\ currentNode' = back1
    /\ pruned' = pruned \cup {currentNode}
    /\ UNCHANGED <<graphVars, edgesLeft, depth, source, sink, bfsVars,
                   pathIndex, errorVars, runVars, commitsAtPhase,
                   lastSinkDepth, repeated>>

(* ------------------ FordFulkerson::augmentFlowAlongPath --------------- *)

\* Mutant of LastUpdateIndex: the last pair of the path is not updated.
LastUpdateIndex_short(p) == Len(p) - 2

\* Bound of the update loop of augmentFlowAlongPath: i < path.size() - 1.
LastUpdateIndex(p) == Len(p) - 1

\* Mutant of augmentStep: the exception of an out-of-range update is logged
\* and swallowed, the update loop goes on.
augmentStep_swallow ==
    /\ pc = "commit"
    /\ pathIndex < LastUpdateIndex(path)
    /\ LET u == path[pathIndex + 1]
           v == path[pathIndex + 2]
       IN  IF InRange(nodes, u) /\ InRange(nodes, v)
           THEN adjacencyMatrix' = updateResidualGraph(adjacencyMatrix, u, v)
           ELSE UNCHANGED adjacencyMatrix
    /\ pathIndex' = pathIndex + 1
    /\ UNCHANGED <<nodes, edgesLeft, maxFlow, depth, source, sink, bfsVars,
                   path, searchVars, pc, errorVars, historyVars>>

\* One iteration of the update loop of augmentFlowAlongPath:
\* updateResidualGraph(path[i], path[i + 1]) on the real graph. The loop
\* before it only computes the local pathFlow, which is never used. An
\* out-of-range node throws out_of_range, rethrown as runtime_error.
augmentStep ==
    /\ pc = "commit"
    /\ pathIndex < LastUpdateIndex(path)
    /\ LET u == path[pathIndex + 1]
           v == path[pathIndex + 2]
       IN  IF InRange(nodes, u) /\ InRange(nodes, v)
           THEN /\ adjacencyMatrix' = updateResidualGraph(adjacencyMatrix, u, v)
                /\ pathIndex' = pathIndex + 1
                /\ UNCHANGED <<pc, errorVars>>
           ELSE /\ pc' = "error"
                /\ raised' = [by |-> "updateResidualGraph",
                              type |-> "out_of_range"]
                /\ thrown' = "runtime_error"
                /\ UNCHANGED <<adjacencyMatrix, pathIndex>>
    /\ UNCHANGED <<nodes, edgesLeft, maxFlow, depth, source, sink, bfsVars,
                   path, searchVars, historyVars>>

\* Mutant of augmentDone: the path is not cleared after the commit.
augmentDone_keepPath ==
    /\ pc = "commit"
    /\ pathIndex >= LastUpdateIndex(path)
    /\ commits' = Append(commits, path)
    /\ pathIndex' = 0
    /\ pc' = "augment"
    /\ UNCHANGED <<graphVars, edgesLeft, maxFlow, depth, source, sink,
                   bfsVars, path, searchVars, errorVars, loaded, phases,
                   calls, capAtCall, rerun, firstRun, phaseVars, repeated>>

\* End of the update loop: path.clear(), and the while condition of
\* augmentFlowAlongPath calls findAugmentingPath again.
augmentDone ==
    /\ pc = "commit"
    /\ pathIndex >= LastUpdateIndex(path)
    /\ commits' = Append(commits, path)
    /\ path' = <<>>
    /\ pathIndex' = 0
    /\ pc' = "augment"
    /\ UNCHANGED <<graphVars, edgesLeft, maxFlow, depth, source, sink,
                   bfsVars, searchVars, errorVars, loaded, phases, calls,
                   capAtCall, rerun, firstRun, phaseVars, repeated>>

(* ------------------------------ second run ---------------------------- *)

\* A second run on the capacity matrix the first run started from, with a
\* newly constructed FordFulkerson object; the first run's committed paths
\* and final matrix are kept for comparison.
runAgain ==
    /\ pc = "returned"
    /\ ~rerun
    /\ calls = 1
    /\ rerun' = TRUE
    /\ firstRun' = [commits |-> commits, matrix |-> adjacencyMatrix]
    /\ adjacencyMatrix' = capAtCall
    /\ maxFlow' = initializeMaxFlow(nodes)
    /\ depth' = initializeDepth(nodes)
    /\ source' = 0 /\ sink' = 0
    /\ commits' = <<>>
    /\ phases' = 0
    /\ calls' = 0
    /\ pc' = "calculateMaxFlow"
    /\ pruned' = {}
    /\ commitsAtPhase' = 0
    /\ lastSinkDepth' = -1
    /\ UNCHANGED <<nodes, edgesLeft, bfsVars, path, searchVars, pathIndex,
                   errorVars, loaded, capAtCall, repeated>>

(* ---------------------------- repeated solve -------------------------- *)

\* Number of solve calls after the first.
MaxRepeats == 1

\* A further BipartiteMatcher::solve call after a solve that returned, on
\* the same graph: connectSourceAndSinkNodes(0, nodes + 1) sets the source
\* row and the sink column again in the residual matrix the previous call
\* left, and a new FordFulkerson object is constructed over the graph. The
\* pairs the first solve printed are kept for comparison.
solveAgain ==
    /\ pc = "returned"
    /\ repeated.count < MaxRepeats
    /\ repeated' = [count |-> repeated.count + 1,
                    pairs |-> IF repeated.count = 0
                              THEN printResults(adjacencyMatrix, nodes)
                              ELSE repeated.pairs]
    /\ adjacencyMatrix' =
           connectSourceAndSinkNodes(adjacencyMatrix, nodes, 0, nodes + 1)
    /\ maxFlow' = initializeMaxFlow(nodes)
    /\ depth' = initializeDepth(nodes)
    /\ source' = 0 /\ sink' = 0
    /\ commits' = <<>>
    /\ phases' = 0
    /\ calls' = 0
    /\ pruned' = {}
    /\ commitsAtPhase' = 0
    /\ lastSinkDepth' = -1
    /\ pc' = "calculateMaxFlow"
    /\ UNCHANGED <<nodes, edgesLeft, bfsVars, path, searchVars, pathIndex,
                   errorVars, loaded, capAtCall, rerun, firstRun>>

(* --------------------------- specification ---------------------------- *)

\* The steps of one calculateMaxFlow call after its entry.
EngineStep ==
    \/ levelGraphBegin
    \/ levelGraphStep
    \/ levelGraphFalse
    \/ phaseBegin
    \/ findAugmentingPathBegin
    \/ findNextNodeAdvance
    \/ findNextNodeFail
    \/ findNextNodeBacktrack
    \/ augmentStep
    \/ augmentDone

\* One execution of the program: loading, solve, calculateMaxFlow calls.
NextRun ==
    \/ validateEdges
    \/ readEdges
    \/ readEdgesEof
    \/ readEdgesDone
    \/ solve
    \/ \E a \in CallArgs(nodes) : calculateMaxFlow(a[1], a[2])
    \/ EngineStep

Next ==
    \/ NextRun
    \/ runAgain

Spec == Init /\ [][Next]_vars

\* One execution under the scheduling of the code: the engine is
\* single-threaded and synchronous, a call in progress keeps taking steps.
FairSpec == Init /\ [][NextRun]_vars /\ WF_vars(EngineStep)

\* One execution of the program followed by further solve calls; each
\* solve makes the one call calculateMaxFlow(0, nodes + 1).
RepeatNext ==
    \/ validateEdges
    \/ readEdges
    \/ readEdgesEof
    \/ readEdgesDone
    \/ solve
    \/ pc = "calculateMaxFlow" /\ calculateMaxFlow(0, nodes + 1)
    \/ EngineStep
    \/ solveAgain

RepeatSpec == Init /\ [][RepeatNext]_vars

(* ------------------- loading without a contract ----------------------- *)

\* Edge lines parseEdge accepts: any two integers. Beside the left->right
\* pairs: a line inside the left side, a line from a right node to a left
\* node, a line that names node 0 (the row of the source) and a line that
\* names nodes + 2 (past the last column of the matrix).
ParsedLines(n) ==
    LeftRight(n) \cup {<<1, 1>>, <<(n \div 2) + 1, 1>>,
                       <<0, (n \div 2) + 1>>, <<1, n + 2>>}

\* One iteration of GraphPrepare::readEdges on any line parseEdge accepts:
\* the two integers are handed to createEdge unchecked. createEdge indexes
\* the matrix with operator[]; an index outside the matrix is undefined
\* behaviour.
readEdgesAnyLine ==
    /\ pc = "readEdges"
    /\ edgesLeft > 0
    /\ \E line \in ParsedLines(nodes) :
          /\ loaded' = loaded \cup {line}
          /\ IF InRange(nodes, line[1]) /\ InRange(nodes, line[2])
             THEN /\ adjacencyMatrix' =
                         createEdge(adjacencyMatrix, line[1], line[2], 1)
                  /\ pc' = pc
             ELSE /\ pc' = "undefined"
                  /\ UNCHANGED adjacencyMatrix
    /\ edgesLeft' = edgesLeft - 1
    /\ UNCHANGED <<nodes, maxFlow, depth, source, sink, bfsVars, path,
                   searchVars, pathIndex, errorVars, commits, phases, calls,
                   capAtCall, rerun, firstRun, phaseVars, repeated>>

\* One execution of the program on a file whose edge lines are any lines
\* parseEdge accepts.
ParseNext ==
    \/ validateEdges
    \/ readEdgesAnyLine
    \/ readEdgesEof
    \/ readEdgesDone
    \/ solve
    \/ \E a \in CallArgs(nodes) : calculateMaxFlow(a[1], a[2])
    \/ EngineStep

ParseSpec == Init /\ [][ParseNext]_vars

(* ------------------ updateResidualGraph on any pair ------------------- *)

\* The capacity matrix the createEdge calls of readEdges build from the
\* lines S, wired by solve.
WiredGraph(n, S) ==
    connectSourceAndSinkNodes(
        [u \in Idx(n) |-> [v \in Idx(n) |-> IF <<u, v>> \in S THEN 1 ELSE 0]],
        n, 0, n + 1)

\* Arguments of an updateResidualGraph call: any two integers, here from
\* one below the valid range to one above it.
UpdateArgs(n) == ((-1) .. TotalNodes(n)) \X ((-1) .. TotalNodes(n))

\* The update loop of augmentFlowAlongPath about to call
\* updateResidualGraph(u, v) for a pair of integers u, v on the wired graph
\* of some input.
UpdateInit ==
    /\ nodes \in {2 * h : h \in 1 .. MaxHalf}
    /\ edgesLeft = 0
    /\ \E S \in SUBSET LeftRight(nodes) :
          /\ loaded = S
          /\ adjacencyMatrix = WiredGraph(nodes, S)
    /\ maxFlow = adjacencyMatrix
    /\ depth = initializeDepth(nodes)
    /\ source = 0 /\ sink = nodes + 1
    /\ bfsQueue = EmptyQueue(nodes) /\ front = 0 /\ back = 0
    /\ \E a \in UpdateArgs(nodes) : path = <<a[1], a[2]>>
    /\ currentNode = 0 /\ backtracking = FALSE
    /\ pathIndex = 0
    /\ pc = "commit"
    /\ raised = NoException
    /\ thrown = "none"
    /\ commits = <<>>
    /\ phases = 1
    /\ calls = 1
    /\ capAtCall = adjacencyMatrix
    /\ rerun = FALSE
    /\ firstRun = [commits |-> <<>>, matrix |-> adjacencyMatrix]
    /\ pruned = {}
    /\ commitsAtPhase = 0
    /\ lastSinkDepth = -1
    /\ repeated = [count |-> 0, pairs |-> {}]

UpdateNext ==
    \/ augmentStep
    \/ augmentDone

UpdateSpec == UpdateInit /\ [][UpdateNext]_vars

(* ------------------- calculateMaxFlow on wider networks --------------- *)

\* Half the partition size of the wider networks.
WideHalf == 4

\* Edge lines of the wider input files: left node i is joined to right
\* nodes among the (i-1)-th, i-th and (i+1)-th.
BandEdges(n) ==
    {p \in LeftRight(n) : p[2] - (n \div 2) - p[1] \in {-1, 0, 1}}

\* solve about to call calculateMaxFlow(0, nodes + 1): the lines of a file
\* are loaded and the source and the sink are wired.
WideInit ==
    /\ nodes = 2 * WideHalf
    /\ edgesLeft = 0
    /\ \E S \in SUBSET BandEdges(nodes) :
          /\ loaded = S
          /\ adjacencyMatrix = WiredGraph(nodes, S)
    /\ maxFlow = initializeMaxFlow(nodes)
    /\ depth = initializeDepth(nodes)
    /\ source = 0 /\ sink = 0
    /\ bfsQueue = EmptyQueue(nodes) /\ front = 0 /\ back = 0
    /\ path = <<>>
    /\ currentNode = 0 /\ backtracking = FALSE
    /\ pathIndex = 0
    /\ pc = "calculateMaxFlow"
    /\ raised = NoException
    /\ thrown = "none"
    /\ commits = <<>>
    /\ phases = 0
    /\ calls = 0
    /\ capAtCall = adjacencyMatrix
    /\ rerun = FALSE
    /\ firstRun = [commits |-> <<>>, matrix |-> adjacencyMatrix]
    /\ pruned = {}
    /\ commitsAtPhase = 0
    /\ lastSinkDepth = -1
    /\ repeated = [count |-> 0, pairs |-> {}]

\* The one calculateMaxFlow call of solve.
WideNext ==
    \/ pc = "calculateMaxFlow" /\ calculateMaxFlow(0, nodes + 1)
    \/ EngineStep

WideSpec == WideInit /\ [][WideNext]_vars

(* ---------------------- reference definitions ------------------------- *)

\* The input is a bipartite network: every edge line joins a left node to
\* a right node.
WellFormed == loaded \subseteq LeftRight(nodes)

\* No two pairs of S share a left node or a right node.
IsMatching(S) ==
    \A p \in S : \A q \in S : p # q => (p[1] # q[1] /\ p[2] # q[2])

\* Size of a maximum matching of the edge set E, by enumeration.
MaxMatching(E) ==
    CHOOSE k \in 0 .. Cardinality(E) :
        /\ \E S \in SUBSET E : IsMatching(S) /\ Cardinality(S) = k
        /\ \A S \in SUBSET E : IsMatching(S) => Cardinality(S) <= k

\* Nodes reachable from the set S along positive entries of m.
RECURSIVE ReachFrom(_, _, _)
ReachFrom(m, n, S) ==
    LET S2 == S \cup {v \in Idx(n) : \E u \in S : m[u][v] > 0}
    IN  IF S2 = S THEN S ELSE ReachFrom(m, n, S2)

ResidualReachable(m, n, s, t) == t \in ReachFrom(m, n, {s})

\* capacity[u][v] + capacity[v][u].
PairSum(m, u, v) == m[u][v] + m[v][u]

\* The matrix an edge set gives, whatever the order of its lines.
MatrixOfLines(n, S) ==
    [u \in Idx(n) |-> [v \in Idx(n) |-> IF <<u, v>> \in S THEN 1 ELSE 0]]

\* A calculateMaxFlow call is in progress.
InCall == pc \in {"levelGraph", "bfs", "phase", "augment", "search", "commit"}

(* ------------------------------ claims -------------------------------- *)

\* C1: on a bipartite network the number of augmenting paths committed by
\* calculateMaxFlow(0, nodes + 1) equals the size of a maximum matching of
\* the input edges, computed by enumeration.
C1_FlowEqualsMaxMatching ==
    (pc = "returned" /\ calls = 1 /\ WellFormed)
        => Len(commits) = MaxMatching(loaded)

\* C1 witness: a returned call that needed two phases and committed two
\* paths, the second one through a reverse edge.
C1_Witness ==
    /\ pc = "returned" /\ calls = 1 /\ WellFormed /\ ~rerun
    /\ phases = 2 /\ Len(commits) = 2
    /\ MaxMatching(loaded) = 2

\* C2: on a bipartite network, before the first commit, after every
\* committed path and after calculateMaxFlow returns, the pairs (i, j) with
\* capacity[j][i] == 1 form a matching.
C2_PairsFormMatching ==
    (WellFormed /\ (InCall \/ pc = "returned") /\ pc # "commit")
        => IsMatching(printResults(adjacencyMatrix, nodes))

\* C2 witness: the state right after the commit of a path that re-routed
\* an earlier pair (five edges long).
C2_Witness ==
    /\ pc = "augment" /\ WellFormed
    /\ Len(commits) = 2 /\ Len(commits[2]) = 6
    /\ Cardinality(printResults(adjacencyMatrix, nodes)) = 2

\* C3: every calculateMaxFlow call that passed its range check eventually
\* returns: the phase loop and the backtracking search both terminate.
C3_CallReturns == InCall ~> (pc = "returned")

\* C3 witness: a call returned after a phase whose search backtracked out
\* of a dead end: a left node still joined to the source in the real graph
\* was cleared in the snapshot.
C3_Witness ==
    /\ pc = "returned" /\ calls = 1 /\ phases >= 1
    /\ \E x \in Left(nodes) :
           adjacencyMatrix[source][x] = 1 /\ maxFlow[source][x] = 0

\* C4: calculateMaxFlow returns exactly when a level-graph BFS fails to
\* assign the sink a depth: in a returned state the sink is not reachable
\* from the source through positive residual entries; the only step into
\* "returned" is the one of an exhausted BFS, it leaves the sink without a
\* depth and changes neither the matrix nor the committed paths; and a BFS
\* step that assigns the sink a depth never returns.
C4_ReturnsExactlyWhenBfsFails ==
    /\ [](pc = "returned"
            => ~ResidualReachable(adjacencyMatrix, nodes, source, sink))
    /\ [][(pc' = "returned" /\ pc # "returned")
            => /\ pc = "bfs" /\ front >= back
               /\ depth'[sink] = -1
               /\ adjacencyMatrix' = adjacencyMatrix
               /\ commits' = commits /\ maxFlow' = maxFlow]_vars
    /\ [][(pc = "bfs" /\ front >= back) => pc' = "returned"]_vars
    /\ [][(pc = "bfs" /\ depth'[sink] # -1) => pc' = "phase"]_vars

\* C4 witness: a call returned after at least one phase, the sink without
\* a depth.
C4_Witness ==
    /\ pc = "returned" /\ calls = 1 /\ phases >= 1 /\ Len(commits) >= 1
    /\ depth[sink] = -1
    /\ \E v \in Idx(nodes) : v # source /\ depth[v] > 0

\* C5: a second calculateMaxFlow call on the residual graph a completed
\* call left runs zero phases and leaves every capacity entry unchanged.
C5_Idempotent ==
    (calls >= 2 /\ (InCall \/ pc = "returned"))
        => /\ phases = 0
           /\ adjacencyMatrix = capAtCall
           /\ pc \in {"levelGraph", "bfs", "returned"}

\* C5 witness: the second call returned on a graph with flow in it.
C5_Witness ==
    /\ pc = "returned" /\ calls = 2 /\ Len(commits) >= 2
    /\ adjacencyMatrix = capAtCall

\* C6: updateResidualGraph(u, v) decreases capacity[u][v] by 1 and
\* increases capacity[v][u] by 1 in one step and changes nothing else, so
\* capacity[u][v] + capacity[v][u] is, for every pair of nodes, the same in
\* every state of a call as when the call began.
C6_FlowConservation ==
    /\ []((InCall \/ pc = "returned")
            => \A u \in Idx(nodes) : \A v \in Idx(nodes) :
                   /\ PairSum(adjacencyMatrix, u, v) = PairSum(capAtCall, u, v)
                   /\ PairSum(updateResidualGraph(adjacencyMatrix, u, v), u, v)
                          = PairSum(adjacencyMatrix, u, v))
    /\ [][(pc = "commit" /\ pathIndex' = pathIndex + 1)
            => LET u == path[pathIndex + 1]
                   v == path[pathIndex + 2]
               IN  /\ adjacencyMatrix'[u][v] = adjacencyMatrix[u][v] - 1
                   /\ adjacencyMatrix'[v][u] = adjacencyMatrix[v][u] + 1
                   /\ \A a \in Idx(nodes) : \A b \in Idx(nodes) :
                          (<<a, b>> # <<u, v>> /\ <<a, b>> # <<v, u>>)
                              => adjacencyMatrix'[a][b] = adjacencyMatrix[a][b]
          ]_vars

\* C6 witness: the middle of a commit that pushes flow back over a reverse
\* edge (from a right node to a left node).
C6_Witness ==
    /\ pc = "commit" /\ pathIndex >= 3
    /\ path[pathIndex] \in Right(nodes)
    /\ path[pathIndex + 1] \in Left(nodes)

C8_EdgeOrderIrrelevant ==
    /\ pc \in {"readEdges", "solve"}
           => adjacencyMatrix = MatrixOfLines(nodes, loaded)
    /\ (pc = "calculateMaxFlow" /\ ~rerun)
           => adjacencyMatrix =
                  connectSourceAndSinkNodes(MatrixOfLines(nodes, loaded),
                                            nodes, 0, nodes + 1)
    /\ (pc = "returned" /\ calls = 1 /\ nodes = 4
            /\ loaded = {<<1, 3>>, <<2, 3>>, <<2, 4>>})
           => /\ Len(commits) = 2
              /\ printResults(adjacencyMatrix, nodes) = {<<1, 3>>, <<2, 4>>}

\* C8 witness: the example graph, loaded from four lines (one repeated),
\* has returned.
C8_Witness ==
    /\ pc = "returned" /\ calls = 1 /\ nodes = 4 /\ ~rerun
    /\ loaded = {<<1, 3>>, <<2, 3>>, <<2, 4>>}
    /\ matches(adjacencyMatrix, nodes) = 2

\* C9: on the complete bipartite graph K(n, n) calculateMaxFlow followed by
\* the extraction yields exactly n pairs (1 pair for partition size 2).
C9_CompleteGraph ==
    (pc = "returned" /\ calls = 1 /\ loaded = LeftRight(nodes))
        => /\ matches(adjacencyMatrix, nodes) = nodes \div 2
           /\ Len(commits) = nodes \div 2

\* C9 witness: K(n, n) with the largest n has returned.
C9_Witness ==
    /\ pc = "returned" /\ calls = 1
    /\ nodes = 2 * MaxHalf
    /\ loaded = LeftRight(nodes)
    /\ matches(adjacencyMatrix, nodes) = MaxHalf

\* A run has ended: calculateMaxFlow returned or an exception reached main.
Ended == pc \in {"returned", "error"}

\* No edge line joins a left node and a right node, in either direction:
\* every line lies inside the left side or inside the right side.
NoLeftRightEdge ==
    loaded \subseteq
        (Left(nodes) \X Left(nodes)) \cup (Right(nodes) \X Right(nodes))

\* C10 as stated: every run on an input without an edge between a left and
\* a right node (a file with as many lines as it declares, none left to
\* read, solved with the in-range source and sink) completes without
\* error, commits no path and reports 0.
C10_NoEdgesCompletes ==
    (Ended /\ NoLeftRightEdge /\ edgesLeft = 0
        /\ raised.by # "calculateMaxFlow")
        => /\ pc = "returned" /\ thrown = "none"
           /\ commits = <<>>
           /\ matches(adjacencyMatrix, nodes) = 0

\* C10 amended: an input that declares no edge line is rejected by
\* validateEdges: the run fails before any edge is created and before any
\* calculateMaxFlow call; only inputs with at least one edge line reach
\* solve. An input whose edge lines join no left node and right node, in
\* either direction (every line lies inside one side of the partition),
\* completes without error, runs no phase, commits no path and reports 0.
C10_NoEdgesRejectedOrZero ==
    /\ (pc = "error" /\ raised.by = "validateEdges")
           => /\ loaded = {} /\ edgesLeft < 1 /\ calls = 0
              /\ adjacencyMatrix = initializeAdjacencyMatrix(nodes)
    /\ pc \notin {"validateEdges", "readEdges", "error"} => loaded # {}
    /\ (pc = "returned" /\ NoLeftRightEdge)
           => /\ thrown = "none" /\ raised = NoException
              /\ phases = 0 /\ commits = <<>>
              /\ matches(adjacencyMatrix, nodes) = 0

\* C10 witness: a run whose only edge line joins no left node to a right
\* node has returned and reports 0.
C10_Witness ==
    /\ pc = "returned" /\ calls = 1
    /\ loaded = {<<1, 1>>}
    /\ matches(adjacencyMatrix, nodes) = 0
    /\ commits = <<>>

\* Units of flow pushed over the entry u -> v since the call began.
NetFlow(u, v) == capAtCall[u][v] - adjacencyMatrix[u][v]

\* C11: after calculateMaxFlow completes on a bipartite network the pairs
\* printResults reports (capacity[j][i] == 1) are exactly the left->right
\* pairs whose forward entry lost one unit since the call began; every
\* reported pair is an input edge and the total reported equals the number
\* of augmenting paths committed.
C11_ReportedPairsCarryFlow ==
    (pc = "returned" /\ calls = 1 /\ WellFormed)
        => LET reported == printResults(adjacencyMatrix, nodes)
           IN  /\ reported = {p \in LeftRight(nodes) : NetFlow(p[1], p[2]) = 1}
               /\ reported \subseteq loaded
               /\ matches(adjacencyMatrix, nodes) = Len(commits)

\* C11 witness: a returned call that reports two pairs, leaves an input
\* edge unreported and re-routed a pair in its second phase.
C11_Witness ==
    /\ pc = "returned" /\ calls = 1 /\ WellFormed
    /\ matches(adjacencyMatrix, nodes) = 2
    /\ loaded \ printResults(adjacencyMatrix, nodes) # {}
    /\ phases = 2

\* A step that enters calculateMaxFlow with a source or sink outside
\* [0, totalNodes).
OutOfRangeCall ==
    /\ calls' = calls + 1
    /\ ~(InRange(nodes, source') /\ InRange(nodes, sink'))

\* C12 as stated: a calculateMaxFlow call with a source or sink outside
\* [0, totalNodes) fails, and the exception its caller sees is an
\* invalid_argument.
C12_CallerSeesInvalidArgument ==
    [][OutOfRangeCall => (pc' = "error" /\ thrown' = "invalid_argument")]_vars

\* C12 amended: a calculateMaxFlow call with a source or sink outside
\* [0, totalNodes) fails: invalid_argument is thrown by the range check and
\* the catch block of calculateMaxFlow rethrows it, so that the caller sees
\* a runtime_error; a failed call is always one with an argument out of
\* range.
C12_CallerSeesRuntimeError ==
    /\ [][OutOfRangeCall
            => /\ pc' = "error"
               /\ raised' = [by |-> "calculateMaxFlow",
                             type |-> "invalid_argument"]
               /\ thrown' = "runtime_error"]_vars
    /\ []((pc = "error" /\ raised.by = "calculateMaxFlow")
            => /\ ~(InRange(nodes, source) /\ InRange(nodes, sink))
               /\ thrown = "runtime_error")

\* C12 witness: the call of solve, made with source -1, has failed.
C12_Witness ==
    /\ pc = "error" /\ raised.by = "calculateMaxFlow"
    /\ calls = 1 /\ source = -1 /\ sink = nodes + 1
    /\ thrown = "runtime_error"

\* C13: a calculateMaxFlow call with a source or sink out of range fails
\* before any phase runs: the failing step changes neither the capacity
\* matrix nor the depth vector, the snapshot, the BFS queue, the path, the
\* committed paths or the phase count, no step follows it, and in the
\* failed state the capacity matrix is the one the call began with.
C13_FailsBeforeAnyPhase ==
    /\ [][OutOfRangeCall
            => /\ pc' = "error"
               /\ UNCHANGED <<graphVars, maxFlow, depth, bfsVars, path,
                              searchVars, pathIndex, commits, phases>>]_vars
    /\ [][pc # "error"]_vars
    /\ []((pc = "error" /\ raised.by = "calculateMaxFlow")
            => adjacencyMatrix = capAtCall)

\* C13 witness: a second call, made with sink nodes + 2 on a graph that
\* carries flow, has failed.
C13_Witness ==
    /\ pc = "error" /\ raised.by = "calculateMaxFlow"
    /\ calls = 2 /\ sink = nodes + 2
    /\ Len(commits) >= 1
    /\ matches(adjacencyMatrix, nodes) >= 1

\* A step in which updateResidualGraph(u, v) is called with u or v outside
\* [0, totalNodes).
OutOfRangeUpdate ==
    /\ pc = "commit"
    /\ pathIndex < LastUpdateIndex(path)
    /\ ~(InRange(nodes, path[pathIndex + 1])
         /\ InRange(nodes, path[pathIndex + 2]))

Wired(after, before, n, s, t) ==
    \A u \in Idx(n) : \A v \in Idx(n) :
        after[u][v] =
            IF (u = s /\ v \in Left(n)) \/ (u \in Right(n) /\ v = t)
            THEN 1
            ELSE before[u][v]

\* C15: connectSourceAndSinkNodes(source, sink) sets capacity[source][i] = 1
\* for every left node i and capacity[j][sink] = 1 for every right node j
\* and leaves every other entry unchanged: so does the step of solve, with
\* source 0 and sink nodes + 1, and so does the function on the loaded
\* matrix for every source and sink of the matrix.
C15_WiringFrame ==
    /\ [][pc = "solve"
            => Wired(adjacencyMatrix', adjacencyMatrix, nodes, 0, nodes + 1)
         ]_vars
    /\ [](pc = "solve"
            => \A s \in Idx(nodes) : \A t \in Idx(nodes) :
                   Wired(connectSourceAndSinkNodes(adjacencyMatrix, nodes,
                                                   s, t),
                         adjacencyMatrix, nodes, s, t))

\* C15 witness: solve has wired a graph that holds a left->right edge and
\* an edge inside the left side; both are still there.
C15_Witness ==
    /\ pc = "calculateMaxFlow" /\ calls = 0 /\ ~rerun
    /\ adjacencyMatrix[0][1] = 1
    /\ adjacencyMatrix[nodes][nodes + 1] = 1
    /\ adjacencyMatrix[1][1] = 1
    /\ \E p \in LeftRight(nodes) :
           p \in loaded /\ adjacencyMatrix[p[1]][p[2]] = 1

\* The matrix after is the matrix before with entry [u][v] set to c and
\* nothing else changed.
Overwritten(after, before, n, u, v, c) ==
    \A a \in Idx(n) : \A b \in Idx(n) :
        after[a][b] = IF a = u /\ b = v THEN c ELSE before[a][b]

\* C16: createEdge(u, v, c) overwrites capacity[u][v] with c and leaves
\* every other entry unchanged, the reverse entry included, and repeating
\* the call changes nothing: so does every readEdges step (a line read a
\* second time leaves the matrix as it is), and so does the function on
\* the matrix being loaded and on the residual matrix of a returned call,
\* for every entry and the capacities 0, 1 and 2.
C16_CreateEdgeOverwrites ==
    /\ [][(pc = "readEdges" /\ edgesLeft' = edgesLeft - 1)
            => /\ \E line \in EdgeLines(nodes) :
                      /\ loaded' = loaded \cup {line}
                      /\ Overwritten(adjacencyMatrix', adjacencyMatrix, nodes,
                                     line[1], line[2], 1)
               /\ loaded' = loaded => adjacencyMatrix' = adjacencyMatrix
         ]_vars
    /\ [](pc \in {"readEdges", "returned"}
            => \A u \in Idx(nodes) : \A v \in Idx(nodes) : \A c \in 0 .. 2 :
                   LET once == createEdge(adjacencyMatrix, u, v, c)
                   IN  /\ Overwritten(once, adjacencyMatrix, nodes, u, v, c)
                       /\ createEdge(once, u, v, c) = once)

\* C16 witness: lines 1 -> nodes/2+1 and 1 -> 1 have been loaded, each
\* entry is 1 and the reverse entry of the first is still 0.
C16_Witness ==
    /\ pc = "readEdges"
    /\ loaded = {<<1, (nodes \div 2) + 1>>, <<1, 1>>}
    /\ adjacencyMatrix[1][(nodes \div 2) + 1] = 1
    /\ adjacencyMatrix[1][1] = 1
    /\ adjacencyMatrix[(nodes \div 2) + 1][1] = 0

\* C17: for every node u of every reachable capacity matrix
\* findAdjacentNodes(u) lists exactly the nodes v with capacity[u][v] > 0,
\* in strictly increasing index order (hence each once); the steps that
\* call it, the BFS step and the search step, leave the matrix unchanged.
C17_NeighboursAscending ==
    /\ [](\A u \in Idx(nodes) :
              LET adj == findAdjacentNodes(adjacencyMatrix, nodes, u)
              IN  /\ {adj[k] : k \in 1 .. Len(adj)}
                         = {v \in Idx(nodes) : adjacencyMatrix[u][v] > 0}
                  /\ \A k \in 1 .. (Len(adj) - 1) : adj[k] < adj[k + 1])
    /\ [][(pc = "bfs" \/ pc = "search")
            => adjacencyMatrix' = adjacencyMatrix]_vars

\* C17 witness: the search stands at a matched left node, whose neighbours
\* are the source (over the reverse entry) and a right node.
C17_Witness ==
    /\ pc = "search" /\ currentNode \in Left(nodes)
    /\ LET adj == findAdjacentNodes(adjacencyMatrix, nodes, currentNode)
       IN  /\ Len(adj) >= 2
           /\ adj[1] = 0
           /\ adj[2] \in Right(nodes)

\* The node indices of the partition, [1, partitionSize].
PartitionNodes == 1 .. nodes

\* C18 as stated: every edge line handed to createEdge by readEdges has
\* both indices within [1, partitionSize], and while the file is loaded no
\* entry outside the rows and columns of the partition is set.
C18_EdgeIndicesInPartition ==
    /\ loaded \subseteq PartitionNodes \X PartitionNodes
    /\ pc \in {"readEdges", "solve"}
           => \A u \in Idx(nodes) : \A v \in Idx(nodes) :
                  adjacencyMatrix[u][v] # 0
                      => (u \in PartitionNodes /\ v \in PartitionNodes)

\* Length of a shortest path from the nodes of frontier (at distance d) to
\* v along positive entries of m, -1 when there is none: by level sets.
RECURSIVE DistFrom(_, _, _, _, _, _)
DistFrom(m, n, seen, frontier, d, v) ==
    IF v \in frontier THEN d
    ELSE IF frontier = {} THEN -1
    ELSE LET next == {w \in Idx(n) \ seen :
                         \E u \in frontier : m[u][w] > 0}
         IN  DistFrom(m, n, seen \cup next, next, d + 1, v)

Distance(m, n, s, v) == DistFrom(m, n, {s}, {s}, 0, v)

\* depth[source] is 0 and every node with a depth has its shortest-path
\* distance from the source in the real residual graph.
DepthsAreDistances ==
    /\ depth[source] = 0
    /\ \A v \in Idx(nodes) :
           depth[v] # -1
               => depth[v] = Distance(adjacencyMatrix, nodes, source, v)

\* C19: when levelGraph has returned true (the loop body of
\* calculateMaxFlow is entered) the sink is reachable from the source along
\* positive real residual entries, and when it has returned false
\* (calculateMaxFlow returned) it is not; in both cases depth[source] is 0
\* and every node with depth != -1 has its shortest-path distance as
\* depth; after true no node has a depth greater than depth[sink]; after
\* false the nodes without a depth are exactly the unreachable ones.
C19_LevelGraphCorrect ==
    /\ pc = "phase"
           => /\ ResidualReachable(adjacencyMatrix, nodes, source, sink)
              /\ depth[sink] # -1
              /\ DepthsAreDistances
              /\ \A v \in Idx(nodes) : depth[v] <= depth[sink]
    /\ pc = "returned"
           => /\ ~ResidualReachable(adjacencyMatrix, nodes, source, sink)
              /\ depth[sink] = -1
              /\ DepthsAreDistances
              /\ \A v \in Idx(nodes) :
                     depth[v] = -1
                         <=> v \notin ReachFrom(adjacencyMatrix, nodes,
                                                {source})

\* C19 witness: levelGraph has returned true in a second phase, with the
\* sink five edges from the source (over a reverse entry).
C19_Witness ==
    /\ pc = "phase" /\ phases = 1
    /\ depth[sink] = 5
    /\ \E v \in Left(nodes) : adjacencyMatrix[v][source] = 1

\* C20: within one levelGraph call a node that has a depth keeps it, a
\* written queue slot is not written again, the queued nodes are pairwise
\* distinct and all have a depth, so the write index back never exceeds
\* totalNodes and no BFS step writes a queue slot past the end.
C20_QueueWithinBounds ==
    /\ [](pc = "bfs"
            => /\ front <= back
               /\ back <= TotalNodes(nodes)
               /\ \A i \in 0 .. (back - 1) :
                      /\ depth[bfsQueue[i]] # -1
                      /\ \A j \in 0 .. (back - 1) :
                             i # j => bfsQueue[i] # bfsQueue[j])
    /\ [][pc = "bfs"
            => /\ pc' # "undefined"
               /\ \A v \in Idx(nodes) :
                      depth[v] # -1 => depth'[v] = depth[v]
               /\ pc' = "bfs"
                      => \A i \in 0 .. (back - 1) :
                             bfsQueue'[i] = bfsQueue[i]]_vars

\* C20 witness: a BFS on the largest partition has queued every node but
\* the sink.
C20_Witness ==
    /\ pc = "bfs"
    /\ nodes = 2 * MaxHalf
    /\ back = TotalNodes(nodes) - 1

(* ------------------------------- C21 ---------------------------------- *)

\* The neighbours v of u in the real graph with depth[v] = depth[u] + 1
\* and a positive entry maxFlow[u][v] in the snapshot of the phase.
Admissible(u) ==
    {v \in Idx(nodes) : /\ adjacencyMatrix[u][v] > 0
                        /\ depth[v] = depth[u] + 1
                        /\ maxFlow[u][v] > 0}

Lowest(S) == CHOOSE x \in S : \A y \in S : x <= y

\* C21: a step of the path search advances the cursor to the lowest-indexed
\* neighbour v of the cursor with depth[v] = depth[cursor] + 1 and
\* maxFlow[cursor][v] > 0 whenever there is one (the sink, when it is
\* that neighbour, ends the search as the last node of the path), and to
\* no other node; the step backtracks or fails only when there is none.
C21_AdvanceToLowest ==
    [][pc = "search" =>
         IF Admissible(currentNode) # {}
         THEN /\ backtracking' = FALSE
              /\ path' = IF Lowest(Admissible(currentNode)) = sink
                         THEN Append(PathWithNode, sink)
                         ELSE PathWithNode
              /\ IF Lowest(Admissible(currentNode)) = sink
                 THEN pc' = "commit"
                 ELSE pc' = "search" /\
                      currentNode' = Lowest(Admissible(currentNode))
         ELSE \/ pc' = "levelGraph" /\ currentNode = source
              \/ backtracking' = TRUE /\ currentNode # source
              \/ pc' = "undefined"]_vars

\* The search has just advanced from a node with two admissible neighbours
\* to the lower one.
C21_Witness ==
    /\ pc = "search"
    /\ ~backtracking
    /\ Len(path) >= 1
    /\ Cardinality(Admissible(path[Len(path)])) >= 2
    /\ currentNode = Lowest(Admissible(path[Len(path)]))

(* ------------------------------- C22 ---------------------------------- *)

\* C22: a node the search backtracked out of stays abandoned for the rest
\* of the phase: its column of maxFlow stays zero until the next snapshot,
\* and in every later search position of the phase, in the same or a later
\* findAugmentingPath call, neither the cursor nor a node of the path
\* (the sink of a found path included) is such a node.
C22_PrunedNeverReentered ==
    /\ \A x \in pruned : \A i \in Idx(nodes) : maxFlow[i][x] = 0
    /\ source \notin pruned
    /\ pc = "search" => currentNode \notin pruned
    /\ (pc = "search" \/ pc = "commit") =>
           \A k \in 1 .. Len(path) : path[k] \notin pruned

\* After a dead end was abandoned the search is back at its parent, from
\* which the abandoned node is a real neighbour one level deeper, and has
\* advanced from that parent to another node.
C22_Witness ==
    /\ pc = "search"
    /\ ~backtracking
    /\ Len(path) >= 1
    /\ currentNode \notin pruned
    /\ \E x \in pruned :
          /\ adjacencyMatrix[path[Len(path)]][x] > 0
          /\ depth[x] = depth[path[Len(path)]] + 1

(* ------------------------------- C23 ---------------------------------- *)

\* C23: no step of findAugmentingPath (its start, an advance, a dead-end
\* pruning, its failure) changes the matrix of the graph; during a
\* calculateMaxFlow call the matrix changes only in a step of the update
\* loop of augmentFlowAlongPath on a found path.
C23_SearchLeavesGraph ==
    [][/\ (pc = "augment" \/ pc = "search") =>
             adjacencyMatrix' = adjacencyMatrix
       /\ (InCall /\ adjacencyMatrix' # adjacencyMatrix) =>
             (pc = "commit" /\ pathIndex < LastUpdateIndex(path))]_vars

\* In the first phase, before any commit, a dead end has been pruned from
\* the snapshot and the matrix of the graph is still the one the call
\* started with.
C23_Witness ==
    /\ pc = "search"
    /\ phases = 1
    /\ commits = <<>>
    /\ pruned # {}
    /\ maxFlow # adjacencyMatrix
    /\ adjacencyMatrix = capAtCall

(* ------------------------------- C24 ---------------------------------- *)

\* findAugmentingPath has returned true and augmentFlowAlongPath has not
\* yet made an update.
PathHandedOver == pc = "commit" /\ pathIndex = 0

\* C24: a path handed to augmentFlowAlongPath starts at the source, ends at
\* the sink, has depth[sink] + 1 nodes of which the k-th (from 0) has depth
\* k, holds no node twice, and each consecutive pair has a positive entry
\* in the matrix of the graph at that moment.
C24_ShortestAugmentingPath ==
    PathHandedOver =>
       /\ Len(path) = depth[sink] + 1
       /\ path[1] = source
       /\ path[Len(path)] = sink
       /\ \A k \in 1 .. Len(path) : depth[path[k]] = k - 1
       /\ \A j, k \in 1 .. Len(path) : j # k => path[j] # path[k]
       /\ \A k \in 1 .. Len(path) - 1 :
             adjacencyMatrix[path[k]][path[k + 1]] > 0

\* A path of a later phase, longer than source, left, right, sink, is
\* handed over.
C24_Witness ==
    /\ PathHandedOver
    /\ Len(path) > 4
    /\ phases > 1

(* ------------------------------- C25 ---------------------------------- *)

\* The nodes of a path other than the source and the sink of the call.
InnerNodes(p) == {p[k] : k \in 1 .. Len(p)} \ {source, sink}

\* The paths committed since the snapshot of the current phase was taken.
CommittedThisPhase == commitsAtPhase + 1 .. Len(commits)

\* C25: on a bipartite network with unit capacities no left or right node
\* lies on two paths committed in the same phase.
C25_PhasePathsDisjoint ==
    WellFormed =>
       \A i, j \in CommittedThisPhase :
           i # j => InnerNodes(commits[i]) \cap InnerNodes(commits[j]) = {}

\* Two paths through reverse edges (longer than source, left, right, sink)
\* have been committed in one phase of a bipartite network.
C25_Witness ==
    /\ WellFormed
    /\ Cardinality(CommittedThisPhase) >= 2
    /\ \A i \in CommittedThisPhase : Len(commits[i]) > 4

(* ------------------------------- C26 ---------------------------------- *)

\* C26: on a bipartite network, when levelGraph has returned true the
\* depth it gave the sink is greater than the one of the previous phase of
\* the call, and a call runs at most nodes / 2 phases.
C26_SinkDepthIncreases ==
    WellFormed =>
       /\ pc = "phase" => depth[sink] > lastSinkDepth
       /\ phases <= nodes \div 2

\* levelGraph has reached the sink again after a phase that committed a
\* path and pruned a dead end.
C26_Witness ==
    /\ WellFormed
    /\ pc = "phase"
    /\ phases >= 1
    /\ lastSinkDepth >= 3
    /\ depth[sink] >= 5
    /\ commits # <<>>
    /\ pruned # {}

(* ------------------------------- C27 ---------------------------------- *)

\* m after updateResidualGraph(p[k], p[k + 1]) for k = from .. upto, the
\* pairs counted from 1.
RECURSIVE ApplyPairs(_, _, _, _)
ApplyPairs(m, p, from, upto) ==
    IF from > upto THEN m
    ELSE ApplyPairs(updateResidualGraph(m, p[from], p[from + 1]), p,
                    from + 1, upto)

\* m after one updateResidualGraph call for every consecutive pair of
\* every path of cs, in order.
RECURSIVE ApplyCommits(_, _, _)
ApplyCommits(m, cs, k) ==
    IF k > Len(cs) THEN m
    ELSE ApplyCommits(ApplyPairs(m, cs[k], 1, Len(cs[k]) - 1), cs, k + 1)

\* Number of edges source -> left, and right -> sink, with capacity 0.
SaturatedSourceEdges ==
    Cardinality({l \in Left(nodes) : adjacencyMatrix[0][l] = 0})

SaturatedSinkEdges ==
    Cardinality({r \in Right(nodes) : adjacencyMatrix[r][nodes + 1] = 0})

\* C27: during and after the calculateMaxFlow call of solve the matrix is
\* the one the call began with after one updateResidualGraph call for
\* every consecutive pair of every committed path (and for the first
\* pathIndex pairs of the path being committed) and nothing else; outside
\* a commit the number of saturated source -> left edges and the number of
\* saturated right -> sink edges both equal the number of commits; and a
\* search starts with an empty path.
C27_CommitPushesOneUnit ==
    (InCall \/ pc = "returned") =>
       /\ adjacencyMatrix =
             IF pc = "commit"
             THEN ApplyPairs(ApplyCommits(capAtCall, commits, 1), path,
                             1, pathIndex)
             ELSE ApplyCommits(capAtCall, commits, 1)
       /\ pc # "commit" =>
             /\ SaturatedSourceEdges = Len(commits)
             /\ SaturatedSinkEdges = Len(commits)
       /\ pc = "augment" => path = <<>>

\* A path through a reverse edge has just been committed after another
\* path, and the next search is about to start.
C27_Witness ==
    /\ pc = "augment"
    /\ Len(commits) >= 2
    /\ Len(commits[Len(commits)]) > 4
    /\ SaturatedSourceEdges = Len(commits)

(* ------------------------------- C28 ---------------------------------- *)

\* C28: on the wired network of a bipartite input every entry of the
\* matrix of the graph is 0 or 1 in every state of a calculateMaxFlow
\* call, between the updateResidualGraph calls of one commit included, and
\* when the call has returned.
C28_EntriesZeroOrOne ==
    (WellFormed /\ (InCall \/ pc = "returned")) =>
       \A u \in Idx(nodes) : \A v \in Idx(nodes) :
           adjacencyMatrix[u][v] \in {0, 1}

\* Between two updateResidualGraph calls of the commit of a path that
\* runs through a reverse edge.
C28_Witness ==
    /\ WellFormed
    /\ pc = "commit"
    /\ Len(path) > 4
    /\ pathIndex > 1
    /\ pathIndex < LastUpdateIndex(path)

(* ------------------------------- C29 ---------------------------------- *)

\* The loop body of calculateMaxFlow has run at least once in the current
\* call and is not running: levelGraph is about to be called or is running
\* again, or has returned.
BetweenPhases ==
    /\ phases >= 1
    /\ pc \in {"levelGraph", "bfs", "phase", "returned"}

\* C29: when a phase has ended, at least one path was committed since its
\* snapshot was taken, and the matrix differs from the one the phase began
\* with (in the first call on a graph: the matrix at call entry after the
\* commits of the earlier phases): no levelGraph call that returned true
\* is followed by a phase without a commit.
C29_PhaseCommitsPath ==
    BetweenPhases =>
       /\ Len(commits) > commitsAtPhase
       /\ calls = 1 =>
             adjacencyMatrix #
                ApplyCommits(capAtCall, SubSeq(commits, 1, commitsAtPhase), 1)

\* A second phase has ended after committing exactly one path, and
\* levelGraph is about to rebuild the level graph.
C29_Witness ==
    /\ pc = "levelGraph"
    /\ phases >= 2
    /\ Len(commits) = commitsAtPhase + 1

(* ------------------------------- C30 ---------------------------------- *)

\* C30: on a bipartite input, a solve call made after the first one has
\* returned prints the pairs the first call printed, and they form a
\* matching.
C30_RepeatedSolveSamePairs ==
    (WellFormed /\ pc = "returned" /\ repeated.count >= 1) =>
       /\ printResults(adjacencyMatrix, nodes) = repeated.pairs
       /\ IsMatching(printResults(adjacencyMatrix, nodes))
====
